---- MODULE Spec2Model ----
(***************************************************************************)
(* Top-k selection over a stream of hits (src/src/lib.rs): the reusable    *)
(* selectors HeapTopK and MedianTopK and the single-shot functions         *)
(* simplified_heap_top_k and simplified_median_top_k.                      *)
(*                                                                         *)
(* The stream is an iterator: every call of next() is a step of the        *)
(* environment that either yields a hit or ends the stream.  One action    *)
(* models the code that runs from one next() to the following one.         *)
(* Sequences are 1-based: slot i of the code is element i + 1 here.        *)
(***************************************************************************)
EXTENDS Integers, Sequences, FiniteSets

\* Bounds of the exploration: k, the scores and document ids of the hits, the
\* number of hits the streams given to one instance yield in all, and the
\* number of calls on one instance.
MaxK == 2
MaxScore == 2
MaxDoc == 1
MaxLen == 6
MaxCalls == 2

VARIABLES
    algo,       \* which entry point runs: "heap", "median", "sheap", "smedian"
    k,          \* the retention count given at construction (or as argument)
    top_k,      \* the internal buffer (heap data vector, or flat slice)
    threshold,  \* local `threshold` of the running call
    len,        \* local `len` of MedianTopK::top_k (active length)
    hits,       \* the hits the iterator has yielded so far in this call,
                \* as a multiset: hits[h] is how many times it yielded h
    yielded,    \* how many hits the iterator has yielded in this call
    output,     \* the caller's output vector (the return value for simplified_*)
    pc,         \* "idle", "seed", "scan", "done", "panicked"
    step,       \* the branch the last action took
    calls,      \* number of top_k calls started on this instance
    consumed    \* hits yielded to this instance over all its calls

vars == <<algo, k, top_k, threshold, len, hits, yielded, output, pc, step, calls, consumed>>

----------------------------------------------------------------------------
\* Hit and its ordering

Hit(s, d) == [score |-> s, doc |-> d]

Hits == {Hit(s, d) : s \in 0..MaxScore, d \in 0..MaxDoc}

\* u64::cmp on scores: -1 Less, 0 Equal, 1 Greater
ScoreCmp(x, y) == IF x < y THEN -1 ELSE IF x > y THEN 1 ELSE 0

\* a plausible slip: the comparator without .reverse()
cmp_unreversed(a, b) == ScoreCmp(a.score, b.score)

\* impl Ord for Hit: self.score.cmp(&other.score).reverse()
cmp(a, b) == 0 - ScoreCmp(a.score, b.score)

lt(a, b) == cmp(a, b) < 0
le(a, b) == cmp(a, b) <= 0
ge(a, b) == cmp(a, b) >= 0

----------------------------------------------------------------------------
\* std::collections::BinaryHeap<Hit> as the code uses it (a max-heap under Ord)

Swap(s, i, j) == [s EXCEPT ![i] = s[j], ![j] = s[i]]

\* BinaryHeap::sift_down_range(pos, end), pos and end 0-based as in std
RECURSIVE sift_down_range(_, _, _)
sift_down_range(data, pos, end) ==
    LET child == 2 * pos + 1 IN
    IF end >= 2 /\ child <= end - 2
    THEN LET c == IF le(data[child + 1], data[child + 2]) THEN child + 1 ELSE child IN
         IF ge(data[pos + 1], data[c + 1])
         THEN data
         ELSE sift_down_range(Swap(data, pos + 1, c + 1), c, end)
    ELSE IF child = end - 1 /\ lt(data[pos + 1], data[child + 1])
         THEN Swap(data, pos + 1, child + 1)
         ELSE data

RECURSIVE rebuild_from(_, _)
rebuild_from(data, n) ==
    IF n = 0 THEN data
    ELSE rebuild_from(sift_down_range(data, n - 1, Len(data)), n - 1)

\* BinaryHeap::extend on an empty heap: the items are appended, then rebuild()
rebuild(data) == rebuild_from(data, Len(data) \div 2)

\* a plausible slip: the root overwritten without restoring the heap order
peek_mut_set_unsifted(data, hit) == [data EXCEPT ![1] = hit]

\* *peek_mut().unwrap() = hit; drop: the root is overwritten, then sift_down(0)
peek_mut_set(data, hit) == sift_down_range([data EXCEPT ![1] = hit], 0, Len(data))

RECURSIVE sort_from(_, _)
sort_from(data, end) ==
    IF end <= 1 THEN data
    ELSE sort_from(sift_down_range(Swap(data, 1, end), 0, end - 1), end - 1)

\* BinaryHeap::into_sorted_vec: ascending under Ord
into_sorted_vec(data) == sort_from(data, Len(data))

----------------------------------------------------------------------------
\* slice::select_nth_unstable and slice::sort_unstable: their contract, every
\* outcome the contract allows

Remove(s, i) == SubSeq(s, 1, i - 1) \o SubSeq(s, i + 1, Len(s))

RECURSIVE Perms(_)
Perms(s) ==
    IF s = <<>> THEN {<<>>}
    ELSE UNION {{<<s[i]>> \o p : p \in Perms(Remove(s, i))} : i \in 1..Len(s)}

\* a plausible slip: selecting around index k instead of k - 1
select_nth_unstable_off(v, index) ==
    {b \in Perms(v) :
        /\ \A i \in 1..(index + 1) : le(b[i], b[index + 2])
        /\ \A j \in (index + 3)..Len(b) : ge(b[j], b[index + 2])}

\* v.select_nth_unstable(index), index 0-based: the element at index is in its
\* sorted place, none before it is greater, none after it is less (under Ord)
select_nth_unstable(v, index) ==
    {b \in Perms(v) :
        /\ \A i \in 1..index : le(b[i], b[index + 1])
        /\ \A j \in (index + 2)..Len(b) : ge(b[j], b[index + 1])}

sort_unstable(v) ==
    {b \in Perms(v) : \A i \in 1..(Len(b) - 1) : le(b[i], b[i + 1])}

\* Vec::truncate
truncate(v, n) == IF Len(v) > n THEN SubSeq(v, 1, n) ELSE v

----------------------------------------------------------------------------
\* Construction

Placeholder == Hit(0, 0)

\* HeapTopK::new: BinaryHeap::with_capacity(k), empty
HeapTopK_new(kk) == <<>>

\* MedianTopK::new: vec![Hit {score: 0, doc: 0}; 2*k]
MedianTopK_new(kk) == [i \in 1..(2 * kk) |-> Placeholder]

Algos == {"heap", "median", "sheap", "smedian"}

\* nothing yielded yet
NoHits == [h \in Hits |-> 0]

\* the iterator may still yield a hit
MoreHits == consumed < MaxLen

\* hits.next() returns Some(hit)
Yield(hit) ==
    /\ hits' = [hits EXCEPT ![hit] = @ + 1]
    /\ yielded' = yielded + 1
    /\ consumed' = consumed + 1

Init ==
    /\ algo \in Algos
    /\ k \in 0..MaxK
    /\ top_k = IF algo = "median" THEN MedianTopK_new(k) ELSE HeapTopK_new(k)
    /\ threshold = 0
    /\ len = 0
    /\ hits = NoHits
    /\ yielded = 0
    /\ output = <<>>
    /\ pc = "idle"
    /\ step = "new"
    /\ calls = 0
    /\ consumed = 0

\* a call unwinds; the instance is not used again
Panic ==
    /\ pc' = "panicked"
    /\ step' = "panic"

----------------------------------------------------------------------------
\* HeapTopK::top_k

\* a plausible slip: the final length assertion left out
heap_assert_len_skipped(out, kk) == TRUE

\* assert_eq!(output.len(), self.k)
heap_assert_len(out, kk) == Len(out) = kk

\* top_k.clear(); take(k) on k = 0 asks the iterator for nothing, so
\* peek().unwrap() panics at once (threshold, a local, is not yet assigned:
\* it reads 0 here until the seeding ends)
HeapStart ==
    /\ algo = "heap"
    /\ pc \in {"idle", "done"}
    /\ calls < MaxCalls
    /\ calls' = calls + 1
    /\ top_k' = <<>>
    /\ hits' = NoHits
    /\ yielded' = 0
    /\ threshold' = 0
    /\ IF k = 0
       THEN Panic
       ELSE pc' = "seed" /\ step' = "start"
    /\ UNCHANGED <<algo, k, len, output, consumed>>

\* extend(take(k)): one more of the first k hits; the k-th ends the extend,
\* and threshold is the root's score
HeapSeedSome ==
    /\ algo = "heap"
    /\ pc = "seed"
    /\ MoreHits
    /\ \E hit \in Hits :
        /\ Yield(hit)
        /\ IF yielded + 1 = k
           THEN /\ top_k' = rebuild(Append(top_k, hit))
                /\ threshold' = top_k'[1].score
                /\ pc' = "scan"
           ELSE /\ top_k' = Append(top_k, hit)
                /\ UNCHANGED <<threshold, pc>>
    /\ step' = "seed"
    /\ UNCHANGED <<algo, k, len, output, calls>>

\* the stream ends before k hits: peek().unwrap() panics on an empty heap;
\* otherwise the scan loop runs over nothing, the heap is drained into
\* output and the length assertion decides
HeapSeedNone ==
    /\ algo = "heap"
    /\ pc = "seed"
    /\ IF top_k = <<>>
       THEN /\ Panic
            /\ UNCHANGED <<top_k, threshold, output>>
       ELSE /\ threshold' = rebuild(top_k)[1].score
            /\ output' = rebuild(top_k)
            /\ top_k' = <<>>
            /\ IF heap_assert_len(output', k)
               THEN pc' = "done" /\ step' = "finish"
               ELSE Panic
    /\ UNCHANGED <<algo, k, len, hits, yielded, calls, consumed>>

\* if hit.score <= threshold { continue; }
HeapDiscard ==
    /\ algo = "heap"
    /\ pc = "scan"
    /\ MoreHits
    /\ \E hit \in Hits :
        /\ hit.score <= threshold
        /\ Yield(hit)
    /\ step' = "discard"
    /\ UNCHANGED <<algo, k, top_k, threshold, len, output, pc, calls>>

\* *head = hit; drop(head); threshold = peek().unwrap().score
HeapReplace ==
    /\ algo = "heap"
    /\ pc = "scan"
    /\ MoreHits
    /\ \E hit \in Hits :
        /\ ~(hit.score <= threshold)
        /\ Yield(hit)
        /\ top_k' = peek_mut_set(top_k, hit)
        /\ threshold' = top_k'[1].score
    /\ step' = "replace"
    /\ UNCHANGED <<algo, k, len, output, pc, calls>>

\* output.clear(); output.extend(self.top_k.drain()); assert_eq!
HeapFinish ==
    /\ algo = "heap"
    /\ pc = "scan"
    /\ output' = top_k
    /\ top_k' = <<>>
    /\ IF heap_assert_len(output', k)
       THEN pc' = "done" /\ step' = "finish"
       ELSE Panic
    /\ UNCHANGED <<algo, k, threshold, len, hits, yielded, calls, consumed>>

----------------------------------------------------------------------------
\* MedianTopK::top_k

\* if hit.score <= threshold { continue; }
median_rejects(hit, th) == hit.score <= th

\* threshold = 0; len = top_k.len().min(k); the zip over the first len slots
\* asks the iterator for nothing when len = 0
MedianStart ==
    /\ algo = "median"
    /\ pc \in {"idle", "done"}
    /\ calls < MaxCalls
    /\ calls' = calls + 1
    /\ threshold' = 0
    /\ len' = IF Len(top_k) < k THEN Len(top_k) ELSE k
    /\ hits' = NoHits
    /\ yielded' = 0
    /\ pc' = IF len' = 0 THEN "scan" ELSE "seed"
    /\ step' = "start"
    /\ UNCHANGED <<algo, k, top_k, output, consumed>>

\* *buffer_cell = hit, for the first len hits
MedianSeedSome ==
    /\ algo = "median"
    /\ pc = "seed"
    /\ MoreHits
    /\ \E hit \in Hits :
        /\ Yield(hit)
        /\ top_k' = [top_k EXCEPT ![yielded + 1] = hit]
    /\ pc' = IF yielded + 1 = len THEN "scan" ELSE "seed"
    /\ step' = "seed"
    /\ UNCHANGED <<algo, k, threshold, len, output, calls>>

MedianDiscard ==
    /\ algo = "median"
    /\ pc = "scan"
    /\ MoreHits
    /\ \E hit \in Hits :
        /\ median_rejects(hit, threshold)
        /\ Yield(hit)
    /\ step' = "discard"
    /\ UNCHANGED <<algo, k, top_k, threshold, len, output, pc, calls>>

\* self.top_k[len] = hit panics when len is not an index of the buffer
MedianOutOfBounds ==
    /\ algo = "median"
    /\ pc = "scan"
    /\ MoreHits
    /\ len >= Len(top_k)
    /\ \E hit \in Hits :
        /\ ~median_rejects(hit, threshold)
        /\ Yield(hit)
    /\ Panic
    /\ UNCHANGED <<algo, k, top_k, threshold, len, output, calls>>

\* self.top_k[len] = hit; len += 1; the buffer is not yet full
MedianAppend ==
    /\ algo = "median"
    /\ pc = "scan"
    /\ MoreHits
    /\ len < Len(top_k)
    /\ len + 1 # Len(top_k)
    /\ \E hit \in Hits :
        /\ ~median_rejects(hit, threshold)
        /\ Yield(hit)
        /\ top_k' = [top_k EXCEPT ![len + 1] = hit]
    /\ len' = len + 1
    /\ step' = "append"
    /\ UNCHANGED <<algo, k, threshold, output, pc, calls>>

\* self.top_k[len] = hit; len += 1; len == top_k.len():
\* select_nth_unstable(k - 1); threshold = median_el.score; len = k
MedianSelect ==
    /\ algo = "median"
    /\ pc = "scan"
    /\ MoreHits
    /\ len < Len(top_k)
    /\ len + 1 = Len(top_k)
    /\ \E hit \in Hits :
        /\ ~median_rejects(hit, threshold)
        /\ Yield(hit)
        /\ top_k' \in select_nth_unstable([top_k EXCEPT ![len + 1] = hit], k - 1)
    /\ threshold' = top_k'[k].score
    /\ len' = k
    /\ step' = "select"
    /\ UNCHANGED <<algo, k, output, pc, calls>>

\* the stream ends: if self.top_k.len() > self.k the whole buffer is selected
\* once more; output.clear(); output.extend(top_k[..k])
MedianFinish ==
    /\ algo = "median"
    /\ pc \in {"seed", "scan"}
    /\ IF Len(top_k) > k
       THEN top_k' \in select_nth_unstable(top_k, k - 1)
       ELSE top_k' = top_k
    /\ output' = SubSeq(top_k', 1, k)
    /\ pc' = "done"
    /\ step' = "finish"
    /\ UNCHANGED <<algo, k, threshold, len, hits, yielded, calls, consumed>>

----------------------------------------------------------------------------
\* simplified_heap_top_k(hits, k): output is the returned vector

SimplifiedHeapStart ==
    /\ algo = "sheap"
    /\ pc = "idle"
    /\ calls' = calls + 1
    /\ IF k = 0
       THEN Panic
       ELSE pc' = "seed" /\ step' = "start"
    /\ UNCHANGED <<algo, k, top_k, threshold, len, hits, yielded, output, consumed>>

\* top_k.extend((&mut hits).take(k)); threshold = top_k.peek().unwrap().score
SimplifiedHeapSeedSome ==
    /\ algo = "sheap"
    /\ pc = "seed"
    /\ MoreHits
    /\ \E hit \in Hits :
        /\ Yield(hit)
        /\ IF yielded + 1 = k
           THEN /\ top_k' = rebuild(Append(top_k, hit))
                /\ threshold' = top_k'[1].score
                /\ pc' = "scan"
           ELSE /\ top_k' = Append(top_k, hit)
                /\ UNCHANGED <<threshold, pc>>
    /\ step' = "seed"
    /\ UNCHANGED <<algo, k, len, output, calls>>

\* the stream ends before k hits: peek().unwrap() panics on an empty heap;
\* otherwise the scan loop runs over nothing and the heap is returned sorted
SimplifiedHeapSeedNone ==
    /\ algo = "sheap"
    /\ pc = "seed"
    /\ IF top_k = <<>>
       THEN /\ Panic
            /\ UNCHANGED <<top_k, threshold, output>>
       ELSE /\ threshold' = rebuild(top_k)[1].score
            /\ output' = into_sorted_vec(rebuild(top_k))
            /\ top_k' = <<>>
            /\ pc' = "done"
            /\ step' = "finish"
    /\ UNCHANGED <<algo, k, len, hits, yielded, calls, consumed>>

SimplifiedHeapDiscard ==
    /\ algo = "sheap"
    /\ pc = "scan"
    /\ MoreHits
    /\ \E hit \in Hits :
        /\ hit.score <= threshold
        /\ Yield(hit)
    /\ step' = "discard"
    /\ UNCHANGED <<algo, k, top_k, threshold, len, output, pc, calls>>

SimplifiedHeapReplace ==
    /\ algo = "sheap"
    /\ pc = "scan"
    /\ MoreHits
    /\ \E hit \in Hits :
        /\ ~(hit.score <= threshold)
        /\ Yield(hit)
        /\ top_k' = peek_mut_set(top_k, hit)
        /\ threshold' = top_k'[1].score
    /\ step' = "replace"
    /\ UNCHANGED <<algo, k, len, output, pc, calls>>

\* top_k.into_sorted_vec()
SimplifiedHeapFinish ==
    /\ algo = "sheap"
    /\ pc = "scan"
    /\ output' = into_sorted_vec(top_k)
    /\ top_k' = <<>>
    /\ pc' = "done"
    /\ step' = "finish"
    /\ UNCHANGED <<algo, k, threshold, len, hits, yielded, calls, consumed>>

----------------------------------------------------------------------------
\* simplified_median_top_k(hits, k): output is the returned vector

\* assert!(k>0); top_k = Vec::with_capacity(2 * k)
SimplifiedMedianStart ==
    /\ algo = "smedian"
    /\ pc = "idle"
    /\ calls' = calls + 1
    /\ IF k > 0
       THEN pc' = "seed" /\ step' = "start"
       ELSE Panic
    /\ UNCHANGED <<algo, k, top_k, threshold, len, hits, yielded, output, consumed>>

\* top_k.extend((&mut hits).take(k)); threshold = 0
SimplifiedMedianSeedSome ==
    /\ algo = "smedian"
    /\ pc = "seed"
    /\ MoreHits
    /\ \E hit \in Hits :
        /\ Yield(hit)
        /\ top_k' = Append(top_k, hit)
    /\ pc' = IF yielded + 1 = k THEN "scan" ELSE "seed"
    /\ step' = "seed"
    /\ UNCHANGED <<algo, k, threshold, len, output, calls>>

SimplifiedMedianDiscard ==
    /\ algo = "smedian"
    /\ pc = "scan"
    /\ MoreHits
    /\ \E hit \in Hits :
        /\ hit.score <= threshold
        /\ Yield(hit)
    /\ step' = "discard"
    /\ UNCHANGED <<algo, k, top_k, threshold, len, output, pc, calls>>

\* top_k.push(hit); top_k.len() != 2*k
SimplifiedMedianPush ==
    /\ algo = "smedian"
    /\ pc = "scan"
    /\ MoreHits
    /\ Len(top_k) + 1 # 2 * k
    /\ \E hit \in Hits :
        /\ ~(hit.score <= threshold)
        /\ Yield(hit)
        /\ top_k' = Append(top_k, hit)
    /\ step' = "append"
    /\ UNCHANGED <<algo, k, threshold, len, output, pc, calls>>

\* top_k.push(hit); top_k.len() == 2*k: select_nth_unstable(k - 1);
\* threshold = median_el.score; top_k.truncate(k)
SimplifiedMedianSelect ==
    /\ algo = "smedian"
    /\ pc = "scan"
    /\ MoreHits
    /\ Len(top_k) + 1 = 2 * k
    /\ \E hit \in Hits :
        /\ ~(hit.score <= threshold)
        /\ Yield(hit)
        /\ \E b \in select_nth_unstable(Append(top_k, hit), k - 1) :
            /\ threshold' = b[k].score
            /\ top_k' = truncate(b, k)
    /\ step' = "select"
    /\ UNCHANGED <<algo, k, len, output, pc, calls>>

\* top_k.sort_unstable(); top_k.truncate(k); top_k
SimplifiedMedianFinish ==
    /\ algo = "smedian"
    /\ pc \in {"seed", "scan"}
    /\ \E b \in sort_unstable(top_k) :
        output' = truncate(b, k)
    /\ top_k' = <<>>
    /\ pc' = "done"
    /\ step' = "finish"
    /\ UNCHANGED <<algo, k, threshold, len, hits, yielded, calls, consumed>>

----------------------------------------------------------------------------
Next ==
    \/ HeapStart
    \/ HeapSeedSome
    \/ HeapSeedNone
    \/ HeapDiscard
    \/ HeapReplace
    \/ HeapFinish
    \/ MedianStart
    \/ MedianSeedSome
    \/ MedianDiscard
    \/ MedianOutOfBounds
    \/ MedianAppend
    \/ MedianSelect
    \/ MedianFinish
    \/ SimplifiedHeapStart
    \/ SimplifiedHeapSeedSome
    \/ SimplifiedHeapSeedNone
    \/ SimplifiedHeapDiscard
    \/ SimplifiedHeapReplace
    \/ SimplifiedHeapFinish
    \/ SimplifiedMedianStart
    \/ SimplifiedMedianSeedSome
    \/ SimplifiedMedianDiscard
    \/ SimplifiedMedianPush
    \/ SimplifiedMedianSelect
    \/ SimplifiedMedianFinish

Spec == Init /\ [][Next]_vars

----------------------------------------------------------------------------
\* Vocabulary of the properties

Min(a, b) == IF a < b THEN a ELSE b

\* how many times hit h occurs in the sequence s
Count(s, h) == Cardinality({i \in DOMAIN s : s[i] = h})

\* how many hits of the sequence s have score x
ScoreCount(s, x) == Cardinality({i \in DOMAIN s : s[i].score = x})

Scores(s) == {s[i].score : i \in DOMAIN s}

RECURSIVE YieldedUpToDoc(_, _)
YieldedUpToDoc(x, d) ==
    IF d < 0 THEN 0 ELSE hits[Hit(x, d)] + YieldedUpToDoc(x, d - 1)

\* how many hits of score x the stream has yielded in this call
YieldedWithScore(x) == YieldedUpToDoc(x, MaxDoc)

\* the hits of out, as a multiset, are among the hits the stream yielded
FromStream(out) ==
    \A i \in DOMAIN out : Count(out, out[i]) <= hits[out[i]]

\* the score multiset of out is that of the Len(out) largest scores of the
\* stream: it is drawn from the stream, and a score left out is no greater
\* than any score kept
TopScores(out) ==
    /\ \A x \in Scores(out) : ScoreCount(out, x) <= YieldedWithScore(x)
    /\ \A x \in 0..MaxScore :
          ScoreCount(out, x) < YieldedWithScore(x)
             => \A y \in Scores(out) : x <= y

\* t is the m-th largest score of s
IsNthLargest(t, s, m) ==
    /\ Cardinality({i \in DOMAIN s : s[i].score > t}) < m
    /\ Cardinality({i \in DOMAIN s : s[i].score >= t}) >= m

MinScore(s) == CHOOSE x \in Scores(s) : \A y \in Scores(s) : x <= y

SortedDescending(s) == \A i \in 1..(Len(s) - 1) : s[i].score >= s[i + 1].score

\* t holds the hits of s with element i replaced by h, in any order
ReplacedAt(s, i, h, t) ==
    LET r == [s EXCEPT ![i] = h] IN
    Len(t) = Len(r) /\ \A j \in DOMAIN r : Count(t, r[j]) = Count(r, r[j])

\* this step is the iterator yielding h
Yields(h) == hits' = [hits EXCEPT ![h] = @ + 1]

Selector == algo \in {"heap", "median"}

Ended == pc \in {"done", "panicked"}

----------------------------------------------------------------------------
\* C1: on a newly constructed HeapTopK or MedianTopK with k >= 1, one top_k
\* call over a stream of at least k hits, in any order, leaves exactly k hits
\* in output whose scores are the k largest scores of the stream.
C1_FreshCallYieldsTopK ==
    (Selector /\ calls = 1 /\ pc = "done" /\ k >= 1 /\ yielded >= k)
        => (Len(output) = k /\ TopScores(output))

\* a first call of MedianTopK, k = 2, has returned after a selection step,
\* leaving out a hit of positive score
C1_Witness ==
    /\ algo = "median" /\ calls = 1 /\ pc = "done" /\ k = 2
    /\ yielded >= 4 /\ threshold > 0
    /\ \E h \in Hits : h.score > 0 /\ hits[h] > Count(output, h)

\* C2: every call on the same selector instance, the first or a later one,
\* over a stream of at least k hits leaves in output the k largest scores of
\* that call's own stream.
C2_EveryCallYieldsTopK ==
    (Selector /\ pc = "done" /\ k >= 1 /\ yielded >= k)
        => (Len(output) = k /\ TopScores(output))

\* C3: whenever top_k returns, for k >= 1 and any stream length n, output
\* holds exactly min(k, n) hits.
C3_OutputLengthIsMin ==
    (Selector /\ pc = "done" /\ k >= 1)
        => Len(output) = Min(k, yielded)

\* C4: HeapTopK::top_k with k >= 1 never returns from a stream of fewer than k
\* hits, and when the stream ends during the seeding the call panics.
C4_HeapShortStreamPanics ==
    /\ []((algo = "heap" /\ k >= 1 /\ Ended /\ yielded < k) => pc = "panicked")
    /\ [][(algo = "heap" /\ k >= 1 /\ pc = "seed" /\ hits' = hits /\ pc' # "seed")
             => pc' = "panicked"]_vars

\* HeapTopK with k = 2 has panicked on a stream of one hit
C4_Witness ==
    algo = "heap" /\ k = 2 /\ yielded = 1 /\ pc = "panicked"

\* C5: for k >= 1 and any stream of n hits, simplified_heap_top_k and
\* simplified_median_top_k return exactly min(k, n) hits, sorted by
\* non-increasing score, whose scores are the min(k, n) largest of the stream.
C5_SimplifiedReturnSortedTopK ==
    (algo \in {"sheap", "smedian"} /\ k >= 1 /\ Ended)
        => /\ pc = "done"
           /\ Len(output) = Min(k, yielded)
           /\ SortedDescending(output)
           /\ TopScores(output)

\* C6: for a stream shorter than k, MedianTopK::top_k puts into output only
\* hits the stream yielded.
C6_MedianNoPlaceholders ==
    (algo = "median" /\ pc = "done" /\ k >= 1 /\ yielded < k)
        => FromStream(output)

\* C7: with k = 0 no entry point returns a result.
C7_ZeroKNeverReturns ==
    k = 0 => pc # "done"

\* C8: at the head of every iteration of HeapTopK's scan loop the heap holds
\* exactly k hits, threshold is the minimum retained score (the root's), and
\* the retained scores are the k largest of the hits consumed so far; a
\* discarded hit has a score no greater than that minimum and leaves the heap
\* as it was; an accepted hit takes the place of a hit of minimum score.
C8_HeapScanInvariant ==
    /\ []((algo = "heap" /\ k >= 1 /\ pc = "scan")
            => /\ Len(top_k) = k
               /\ threshold = MinScore(top_k)
               /\ top_k[1].score = threshold
               /\ TopScores(top_k))
    /\ [][(algo = "heap" /\ pc = "scan" /\ pc' = "scan")
            => \E h \in Hits :
                 /\ Yields(h)
                 /\ step' = "discard"
                     => (h.score <= MinScore(top_k) /\ top_k' = top_k)
                 /\ step' = "replace"
                     => \E i \in DOMAIN top_k :
                           /\ top_k[i].score = MinScore(top_k)
                           /\ h.score > top_k[i].score
                           /\ ReplacedAt(top_k, i, h, top_k')]_vars

\* HeapTopK, k = 2, is at the loop head after a replacement, four hits in
C8_Witness ==
    /\ algo = "heap" /\ k = 2 /\ pc = "scan" /\ step = "replace"
    /\ yielded >= 4 /\ threshold > 0

\* C9: in MedianTopK's scan loop k <= len < 2k; threshold never decreases
\* during a call; right after a selection step len = k, threshold is the k-th
\* largest score of the 2k buffered hits and slots 0..k hold scores >=
\* threshold; when a hit is discarded at least k of the active slots hold a
\* score >= the discarded hit's.
C9_MedianScanInvariant ==
    /\ []((algo = "median" /\ k >= 1 /\ pc = "scan")
            => /\ k <= len /\ len < 2 * k /\ Len(top_k) = 2 * k
               /\ step = "select"
                   => /\ len = k
                      /\ IsNthLargest(threshold, top_k, k)
                      /\ \A i \in 1..k : top_k[i].score >= threshold)
    /\ [][(algo = "median" /\ k >= 1 /\ pc = "scan" /\ pc' = "scan")
            => /\ threshold' >= threshold
               /\ step' = "discard"
                   => \E h \in Hits :
                         /\ Yields(h)
                         /\ Cardinality({i \in 1..len :
                               top_k[i].score >= h.score}) >= k]_vars

\* MedianTopK, k = 2, reused: a hit was discarded after a selection step had
\* raised the threshold
C9_Witness ==
    /\ algo = "median" /\ k = 2 /\ pc = "scan" /\ step = "discard"
    /\ threshold > 0 /\ calls = 2

\* C10: after a call on a newly constructed MedianTopK over a stream of at
\* least k hits, output is a sub-multiset of the hits the stream yielded.
C10_MedianOutputFromStream ==
    (algo = "median" /\ calls = 1 /\ pc = "done" /\ k >= 1 /\ yielded >= k)
        => FromStream(output)

====
